---- MODULE Spec2Model ----
(***************************************************************************)
(* Model of backend_api.py: a Flask backend with three GET routes that     *)
(* proxy one Google Sheets worksheet.  Every request runs its handler      *)
(* step by step (credential load, open spreadsheet, open worksheet, read,  *)
(* respond); the process environment, the credential file and the          *)
(* spreadsheet provider are the world the steps observe.                   *)
(***************************************************************************)
EXTENDS Integers, Sequences, FiniteSets

VARIABLES
    environ,      \* os.environ['SERVICE_ACCOUNT_JSON']: "absent", "valid", "malformed", "badinfo"
    credFile,     \* the file at SERVICE_ACCOUNT_PATH: "valid", "missing", "invalid"
    provider,     \* what the spreadsheet provider answers to each kind of call
    created,      \* created[c] = the request that constructed client c (gspread.authorize)
    endpoint,     \* endpoint[r]: the route request r was sent to ("" before it arrives)
    pc,           \* pc[r]: the next step of r's handler
    client,       \* client[r]: the client object r's handler holds (0: none)
    calls,        \* calls[r]: every collaborator call r's handler made, with what it observed
    seen,         \* seen[r]: the worksheet content r's handler read (<<>> before the read)
    responses,    \* responses[r]: the HTTP responses sent for r
    raised,       \* raised[r]: the exceptions raised inside r's handler
    unhandled     \* unhandled[r]: exceptions that left r's handler

vars == <<environ, credFile, provider, created, endpoint, pc, client, calls, seen,
          responses, raised, unhandled>>

----------------------------------------------------------------------------
(* Bounds *)

NumReq == 2
MaxRows == 2

Req == 1..NumReq

----------------------------------------------------------------------------
(* Configuration *)

SERVICE_ACCOUNT_PATH ==
    "/Users/simonbramwit/Desktop/MVP/Client Automator/georgia-companies-websites-1132cbbeacfa.json"
MASTER_SPREADSHEET_ID == "12G4hPC6X8o9Z68EAvGMuzRQ6M5eY4f5pfcNpDHuoBKQ"
MASTER_TAB_NAME == "Sheet1"
required_columns == <<"Company / Account", "Email", "Lead Owner">>

----------------------------------------------------------------------------
(* Cell values and their string form *)

StrCell(s) == [kind |-> "str", s |-> s, n |-> 0]
IntCell(n) == [kind |-> "int", s |-> <<>>, n |-> n]

Whitespace == {" ", "\t", "\n"}

DigitChars == <<"0", "1", "2", "3", "4", "5", "6", "7", "8", "9">>

RECURSIVE Decimal(_)
Decimal(n) ==
    IF n < 10 THEN <<DigitChars[n + 1]>>
    ELSE Decimal(n \div 10) \o <<DigitChars[(n % 10) + 1]>>

\* str(value)
str(value) ==
    IF value.kind = "int"
    THEN IF value.n < 0 THEN <<"-">> \o Decimal(0 - value.n) ELSE Decimal(value.n)
    ELSE value.s

RECURSIVE lstrip(_)
lstrip(s) ==
    IF s # <<>> /\ Head(s) \in Whitespace THEN lstrip(Tail(s)) ELSE s

RECURSIVE rstrip(_)
rstrip(s) ==
    IF s # <<>> /\ s[Len(s)] \in Whitespace THEN rstrip(SubSeq(s, 1, Len(s) - 1)) ELSE s

\* str.strip()
strip(s) == rstrip(lstrip(s))

\* truth value of a str
truthy(s) == Len(s) > 0

----------------------------------------------------------------------------
(* The worksheet as the provider returns it: the header row and the data   *)
(* rows below it, every row as wide as the header.                         *)

CellValues == {StrCell(<<>>), StrCell(<<" ">>), StrCell(<<" ", "a">>), IntCell(0)}

AllColumns == required_columns \o <<"Notes">>

RECURSIVE SubSeqs(_)
SubSeqs(s) ==
    IF s = <<>> THEN {<<>>}
    ELSE LET rest == SubSeqs(Tail(s))
         IN  rest \cup {<<Head(s)>> \o t : t \in rest}

Headers == SubSeqs(AllColumns)

RowsOf(width, cells) ==
    UNION {[1..k -> [1..width -> cells]] : k \in 0..MaxRows}

UniformRows(width) ==
    UNION {[1..k -> {[c \in 1..width |-> v] : v \in CellValues}] : k \in 0..MaxRows}

\* a worksheet: the header row, the data rows below it, and the declared size
\* of its grid, which holds them and any empty rows and columns after them
Sheet(header, rows, spare) ==
    [header |-> header, rows |-> rows,
     row_count |-> Len(rows) + 1 + spare, col_count |-> Len(header) + spare]

\* every content of the three required columns
FullSheets ==
    {Sheet(required_columns, rs, 0) : rs \in RowsOf(Len(required_columns), CellValues)}

\* every header row, over rows whose cells are all alike, in a grid that is
\* full or has spare rows and columns
HeaderSheets ==
    UNION {{Sheet(h, rs, spare) : rs \in UniformRows(Len(h)), spare \in {0, 1}} :
              h \in Headers}

Sheets == FullSheets \cup HeaderSheets

ConcSheets ==
    {Sheet(required_columns,
           <<[c \in 1..Len(required_columns) |-> StrCell(<<>>)],
             [c \in 1..Len(required_columns) |-> IntCell(0)]>>, 1),
     Sheet(<<"Email", "Notes">>, <<>>, 0)}

spreadsheet_title(sheet) == "Master Database"
worksheet_title(sheet) == MASTER_TAB_NAME
row_count(sheet) == sheet.row_count
col_count(sheet) == sheet.col_count

\* worksheet.row_values(1)
row_values(sheet, row) ==
    IF row = 1 THEN sheet.header ELSE [c \in 1..Len(sheet.header) |-> str(sheet.rows[row - 1][c])]

\* worksheet.get_all_records(): one dict per data row, keyed by the header row
get_all_records(sheet) ==
    [i \in 1..Len(sheet.rows) |-> [keys |-> sheet.header, vals |-> sheet.rows[i]]]

\* col in record
HasKey(record, col) == \E i \in 1..Len(record.keys) : record.keys[i] = col

RECURSIVE join(_, _)
join(sep, parts) ==
    IF Len(parts) = 0 THEN <<>>
    ELSE IF Len(parts) = 1 THEN parts
    ELSE <<Head(parts), sep>> \o join(sep, Tail(parts))

----------------------------------------------------------------------------
(* Exceptions and the except clauses of the handlers *)

Exc(type, msg) == [type |-> type, msg |-> msg]

\* the base class of every exception class the collaborators raise
Base(cls) ==
    CASE cls = "JSONDecodeError" -> "ValueError"
      [] cls = "ValueError" -> "Exception"
      [] cls = "FileNotFoundError" -> "OSError"
      [] cls = "OSError" -> "Exception"
      [] cls = "SpreadsheetNotFound" -> "GSpreadException"
      [] cls = "WorksheetNotFound" -> "GSpreadException"
      [] cls = "APIError" -> "GSpreadException"
      [] cls = "GSpreadException" -> "Exception"
      [] cls = "Exception" -> "BaseException"
      [] OTHER -> "object"

\* whether an `except cls` clause matches an exception of class type
RECURSIVE Matches(_, _)
Matches(type, cls) ==
    IF type = cls THEN TRUE
    ELSE IF type = "object" THEN FALSE
    ELSE Matches(Base(type), cls)

Response(status, body) == [status |-> status, body |-> body]
Caught(response) == [caught |-> TRUE, response |-> response]
Propagates == [caught |-> FALSE, response |-> Response(0, [error |-> <<>>])]

now_isoformat == "datetime.now().isoformat()"

\* a variant whose catch-all clause comes first
get_master_data_except_catchall_first(exc) ==
    IF Matches(exc.type, "Exception")
    THEN Caught(Response(500, [error |-> <<"Failed to fetch data: ", exc.msg>>]))
    ELSE Propagates

\* a variant without the final `except Exception` clause
get_master_data_except_no_catchall(exc) ==
    IF Matches(exc.type, "SpreadsheetNotFound")
    THEN Caught(Response(404, [error |->
            <<"Spreadsheet not found. Check the spreadsheet ID and ensure the service account has access.">>]))
    ELSE IF Matches(exc.type, "WorksheetNotFound")
    THEN Caught(Response(404, [error |->
            <<"Worksheet \"", MASTER_TAB_NAME, "\" not found. Check the tab name.">>]))
    ELSE IF Matches(exc.type, "FileNotFoundError")
    THEN Caught(Response(500, [error |->
            <<"Service account file not found. Check the SERVICE_ACCOUNT_PATH.">>]))
    ELSE Propagates

\* the except clauses of get_master_data, in order
get_master_data_except(exc) ==
    IF Matches(exc.type, "SpreadsheetNotFound")
    THEN Caught(Response(404, [error |->
            <<"Spreadsheet not found. Check the spreadsheet ID and ensure the service account has access.">>]))
    ELSE IF Matches(exc.type, "WorksheetNotFound")
    THEN Caught(Response(404, [error |->
            <<"Worksheet \"", MASTER_TAB_NAME, "\" not found. Check the tab name.">>]))
    ELSE IF Matches(exc.type, "FileNotFoundError")
    THEN Caught(Response(500, [error |->
            <<"Service account file not found. Check the SERVICE_ACCOUNT_PATH.">>]))
    ELSE IF Matches(exc.type, "Exception")
    THEN Caught(Response(500, [error |-> <<"Failed to fetch data: ", exc.msg>>]))
    ELSE Propagates

\* a variant that maps the not-found exceptions to 404 as get_master_data does
test_connection_except_not_found(exc) ==
    IF Matches(exc.type, "SpreadsheetNotFound") \/ Matches(exc.type, "WorksheetNotFound")
    THEN Caught(Response(404, [error |-> <<"Connection test failed: ", exc.msg>>]))
    ELSE IF Matches(exc.type, "Exception")
    THEN Caught(Response(500, [error |-> <<"Connection test failed: ", exc.msg>>]))
    ELSE Propagates

\* the except clause of test_connection
test_connection_except(exc) ==
    IF Matches(exc.type, "Exception")
    THEN Caught(Response(500, [error |-> <<"Connection test failed: ", exc.msg>>]))
    ELSE Propagates

----------------------------------------------------------------------------
(* get_master_data after the fetch: validation, cleaning, the response *)

\* a variant that tests the values themselves: any(record.values())
record_kept_raw(record) ==
    \E i \in 1..Len(record.vals) :
        IF record.vals[i].kind = "int" THEN record.vals[i].n # 0
        ELSE truthy(record.vals[i].s)

\* any(str(value).strip() for value in record.values())
record_kept(record) ==
    \E i \in 1..Len(record.vals) : truthy(strip(str(record.vals[i])))

cleaned_records(records) == SelectSeq(records, record_kept)

missing_columns(first_record) ==
    SelectSeq(required_columns, LAMBDA col : ~HasKey(first_record, col))

\* a variant that cleans the records first and validates the first cleaned record
get_master_data_response_filter_first(records) ==
    IF Len(cleaned_records(records)) > 0
       /\ Len(missing_columns(cleaned_records(records)[1])) > 0
    THEN Response(400,
            [error |-> <<"Missing required columns: ">>
                          \o join(", ", missing_columns(cleaned_records(records)[1])),
             available_columns |-> cleaned_records(records)[1].keys])
    ELSE Response(200,
            [success |-> TRUE,
             data |-> cleaned_records(records),
             count |-> Len(cleaned_records(records)),
             last_updated |-> "Recently updated",
             timestamp |-> now_isoformat])

get_master_data_response(records) ==
    IF Len(records) > 0 /\ Len(missing_columns(records[1])) > 0
    THEN Response(400,
            [error |-> <<"Missing required columns: ">>
                          \o join(", ", missing_columns(records[1])),
             available_columns |-> records[1].keys])
    ELSE Response(200,
            [success |-> TRUE,
             data |-> cleaned_records(records),
             count |-> Len(cleaned_records(records)),
             last_updated |-> "Recently updated",
             timestamp |-> now_isoformat])

\* the body test_connection builds from the header row and the worksheet's properties
test_connection_response(sheet, headers) ==
    Response(200,
        [success |-> TRUE,
         message |-> "Connection successful",
         spreadsheet_title |-> spreadsheet_title(sheet),
         worksheet_title |-> worksheet_title(sheet),
         headers |-> headers,
         row_count |-> row_count(sheet),
         col_count |-> col_count(sheet)])

health_check_response ==
    Response(200, [status |-> "healthy", service |-> "sheets-api", timestamp |-> now_isoformat])

----------------------------------------------------------------------------
(* Collaborator calls *)

Call(op, arg, cl, result) == [op |-> op, arg |-> arg, client |-> cl, result |-> result]

NoExc == Exc("", "")

\* json.loads(os.environ['SERVICE_ACCOUNT_JSON']), Credentials.from_service_account_info(...)
creds_from_environ ==
    IF environ = "malformed"
    THEN [ok |-> FALSE,
          calls |-> <<Call("json.loads", "SERVICE_ACCOUNT_JSON", 0, "JSONDecodeError")>>,
          exc |-> Exc("JSONDecodeError", "Expecting value")]
    ELSE IF environ = "badinfo"
    THEN [ok |-> FALSE,
          calls |-> <<Call("json.loads", "SERVICE_ACCOUNT_JSON", 0, "ok"),
                      Call("from_service_account_info", "SERVICE_ACCOUNT_JSON", 0, "ValueError")>>,
          exc |-> Exc("ValueError", "Service account info was not in the expected format")]
    ELSE [ok |-> TRUE,
          calls |-> <<Call("json.loads", "SERVICE_ACCOUNT_JSON", 0, "ok"),
                      Call("from_service_account_info", "SERVICE_ACCOUNT_JSON", 0, "ok")>>,
          exc |-> NoExc]

\* Credentials.from_service_account_file(SERVICE_ACCOUNT_PATH, ...)
creds_from_file ==
    IF credFile = "missing"
    THEN [ok |-> FALSE,
          calls |-> <<Call("from_service_account_file", SERVICE_ACCOUNT_PATH, 0, "FileNotFoundError")>>,
          exc |-> Exc("FileNotFoundError", "No such file or directory")]
    ELSE IF credFile = "invalid"
    THEN [ok |-> FALSE,
          calls |-> <<Call("from_service_account_file", SERVICE_ACCOUNT_PATH, 0, "ValueError")>>,
          exc |-> Exc("ValueError", "Service account info was not in the expected format")]
    ELSE [ok |-> TRUE,
          calls |-> <<Call("from_service_account_file", SERVICE_ACCOUNT_PATH, 0, "ok")>>,
          exc |-> NoExc]

\* client = gspread.authorize(creds) once the credential is built; the
\* exception is re-raised otherwise
authorize(lookup, creds) ==
    IF creds.ok
    THEN [ok |-> TRUE, client |-> Len(created) + 1,
          calls |-> lookup \o creds.calls
                      \o <<Call("gspread.authorize", "creds", Len(created) + 1, "ok")>>,
          exc |-> NoExc]
    ELSE [ok |-> FALSE, client |-> 0, calls |-> lookup \o creds.calls, exc |-> creds.exc]

\* a variant that prefers the credential file whenever it exists
get_sheets_client_file_first ==
    IF credFile # "missing"
    THEN authorize(<<>>, creds_from_file)
    ELSE authorize(<<Call("os.environ", "SERVICE_ACCOUNT_JSON", 0,
                          IF environ = "absent" THEN "absent" ELSE "present")>>,
                   creds_from_environ)

\* a variant that keeps the first client it built and hands it to later requests
get_sheets_client_cached ==
    IF Len(created) > 0
    THEN [ok |-> TRUE, client |-> 1, calls |-> <<>>, exc |-> NoExc]
    ELSE IF environ # "absent"
    THEN authorize(<<Call("os.environ", "SERVICE_ACCOUNT_JSON", 0, "present")>>,
                   creds_from_environ)
    ELSE authorize(<<Call("os.environ", "SERVICE_ACCOUNT_JSON", 0, "absent")>>,
                   creds_from_file)

\* get_sheets_client(): the calls it makes, and the client it returns or the
\* exception it re-raises
get_sheets_client ==
    IF environ # "absent"
    THEN authorize(<<Call("os.environ", "SERVICE_ACCOUNT_JSON", 0, "present")>>,
                   creds_from_environ)
    ELSE authorize(<<Call("os.environ", "SERVICE_ACCOUNT_JSON", 0, "absent")>>,
                   creds_from_file)

\* client.open_by_key(MASTER_SPREADSHEET_ID)
open_by_key(cl) ==
    IF provider.spreadsheet = "ok"
    THEN [ok |-> TRUE, calls |-> <<Call("open_by_key", MASTER_SPREADSHEET_ID, cl, "ok")>>,
          exc |-> NoExc]
    ELSE IF provider.spreadsheet = "notfound"
    THEN [ok |-> FALSE,
          calls |-> <<Call("open_by_key", MASTER_SPREADSHEET_ID, cl, "SpreadsheetNotFound")>>,
          exc |-> Exc("SpreadsheetNotFound", "")]
    ELSE [ok |-> FALSE,
          calls |-> <<Call("open_by_key", MASTER_SPREADSHEET_ID, cl, "APIError")>>,
          exc |-> Exc("APIError", "open_by_key: the API call failed")]

\* sheet.worksheet(MASTER_TAB_NAME)
worksheet(cl) ==
    IF provider.worksheet = "ok"
    THEN [ok |-> TRUE, calls |-> <<Call("worksheet", MASTER_TAB_NAME, cl, "ok")>>, exc |-> NoExc]
    ELSE IF provider.worksheet = "notfound"
    THEN [ok |-> FALSE,
          calls |-> <<Call("worksheet", MASTER_TAB_NAME, cl, "WorksheetNotFound")>>,
          exc |-> Exc("WorksheetNotFound", MASTER_TAB_NAME)]
    ELSE [ok |-> FALSE,
          calls |-> <<Call("worksheet", MASTER_TAB_NAME, cl, "APIError")>>,
          exc |-> Exc("APIError", "worksheet: the API call failed")]

\* records = worksheet.get_all_records(), then the response built from them
get_master_data_read(sheet, cl) ==
    IF provider.read = "ok"
    THEN [ok |-> TRUE, calls |-> <<Call("get_all_records", 0, cl, "ok")>>, exc |-> NoExc,
          response |-> get_master_data_response(get_all_records(sheet))]
    ELSE [ok |-> FALSE, calls |-> <<Call("get_all_records", 0, cl, "APIError")>>,
          exc |-> Exc("APIError", "get_all_records: the API call failed"),
          response |-> Response(0, [error |-> <<>>])]

\* a variant that fetches every record and takes the headers from the first one
test_connection_read_records(sheet, cl) ==
    IF provider.read = "ok"
    THEN [ok |-> TRUE, calls |-> <<Call("get_all_records", 0, cl, "ok")>>, exc |-> NoExc,
          response |-> test_connection_response(sheet,
                          IF Len(get_all_records(sheet)) > 0
                          THEN get_all_records(sheet)[1].keys ELSE <<>>)]
    ELSE [ok |-> FALSE, calls |-> <<Call("get_all_records", 0, cl, "APIError")>>,
          exc |-> Exc("APIError", "get_all_records: the API call failed"),
          response |-> Response(0, [error |-> <<>>])]

\* headers = worksheet.row_values(1), then the response built from them
test_connection_read(sheet, cl) ==
    IF provider.read = "ok"
    THEN [ok |-> TRUE, calls |-> <<Call("row_values", 1, cl, "ok")>>, exc |-> NoExc,
          response |-> test_connection_response(sheet, row_values(sheet, 1))]
    ELSE [ok |-> FALSE, calls |-> <<Call("row_values", 1, cl, "APIError")>>,
          exc |-> Exc("APIError", "row_values: the API call failed"),
          response |-> Response(0, [error |-> <<>>])]

----------------------------------------------------------------------------
(* The handlers, step by step *)

MasterData == "/api/master-data"
TestConnection == "/api/test-connection"
Health == "/api/health"

except(ep, exc) ==
    IF ep = MasterData THEN get_master_data_except(exc) ELSE test_connection_except(exc)

\* the handler returns a response
Return(r, response) ==
    /\ pc' = [pc EXCEPT ![r] = "done"]
    /\ responses' = [responses EXCEPT ![r] = Append(@, response)]
    /\ UNCHANGED <<raised, unhandled>>

\* a step raised exc inside the handler's try block
Raise(r, ep, exc) ==
    LET h == except(ep, exc)
    IN  /\ pc' = [pc EXCEPT ![r] = "done"]
        /\ raised' = [raised EXCEPT ![r] = Append(@, exc)]
        /\ responses' = IF h.caught THEN [responses EXCEPT ![r] = Append(@, h.response)]
                        ELSE responses
        /\ unhandled' = IF h.caught THEN unhandled
                        ELSE [unhandled EXCEPT ![r] = Append(@, exc)]

\* the request arrives and the handler calls get_sheets_client()
ClientStep(r, ep) ==
    /\ pc[r] = "idle"
    /\ endpoint' = [endpoint EXCEPT ![r] = ep]
    /\ LET out == get_sheets_client
       IN  /\ calls' = [calls EXCEPT ![r] = @ \o out.calls]
           /\ created' = IF \E i \in 1..Len(out.calls) : out.calls[i].op = "gspread.authorize"
                         THEN Append(created, r) ELSE created
           /\ IF out.ok
              THEN /\ client' = [client EXCEPT ![r] = out.client]
                   /\ pc' = [pc EXCEPT ![r] = "open_by_key"]
                   /\ UNCHANGED <<responses, raised, unhandled>>
              ELSE /\ Raise(r, ep, out.exc)
                   /\ UNCHANGED client
    /\ UNCHANGED <<environ, credFile, provider, seen>>

OpenStep(r, ep) ==
    /\ pc[r] = "open_by_key"
    /\ endpoint[r] = ep
    /\ LET out == open_by_key(client[r])
       IN  /\ calls' = [calls EXCEPT ![r] = @ \o out.calls]
           /\ IF out.ok
              THEN /\ pc' = [pc EXCEPT ![r] = "worksheet"]
                   /\ UNCHANGED <<responses, raised, unhandled>>
              ELSE Raise(r, ep, out.exc)
    /\ UNCHANGED <<environ, credFile, provider, created, endpoint, client, seen>>

WorksheetStep(r, ep) ==
    /\ pc[r] = "worksheet"
    /\ endpoint[r] = ep
    /\ LET out == worksheet(client[r])
       IN  /\ calls' = [calls EXCEPT ![r] = @ \o out.calls]
           /\ IF out.ok
              THEN /\ pc' = [pc EXCEPT ![r] = "read"]
                   /\ UNCHANGED <<responses, raised, unhandled>>
              ELSE Raise(r, ep, out.exc)
    /\ UNCHANGED <<environ, credFile, provider, created, endpoint, client, seen>>

ReadStep(r, ep, out, sheet) ==
    /\ pc[r] = "read"
    /\ endpoint[r] = ep
    /\ calls' = [calls EXCEPT ![r] = @ \o out.calls]
    /\ IF out.ok
       THEN /\ seen' = [seen EXCEPT ![r] = Append(@, sheet)]
            /\ Return(r, out.response)
       ELSE /\ Raise(r, ep, out.exc)
            /\ UNCHANGED seen
    /\ UNCHANGED <<environ, credFile, provider, created, endpoint, client>>

get_master_data_client(r) == ClientStep(r, MasterData)
get_master_data_open(r) == OpenStep(r, MasterData)
get_master_data_worksheet(r) == WorksheetStep(r, MasterData)
get_master_data_records(r, sheets) ==
    /\ pc[r] = "read"
    /\ endpoint[r] = MasterData
    /\ \E sheet \in sheets :
          ReadStep(r, MasterData, get_master_data_read(sheet, client[r]), sheet)

test_connection_client(r) == ClientStep(r, TestConnection)
test_connection_open(r) == OpenStep(r, TestConnection)
test_connection_worksheet(r) == WorksheetStep(r, TestConnection)
test_connection_headers(r, sheets) ==
    /\ pc[r] = "read"
    /\ endpoint[r] = TestConnection
    /\ \E sheet \in sheets :
          ReadStep(r, TestConnection, test_connection_read(sheet, client[r]), sheet)

\* a variant that probes the credentials before answering
health_check_probing(r) ==
    /\ pc[r] = "idle"
    /\ endpoint' = [endpoint EXCEPT ![r] = Health]
    /\ calls' = [calls EXCEPT ![r] = @ \o get_sheets_client.calls]
    /\ Return(r, IF get_sheets_client.ok THEN health_check_response
                 ELSE Response(500, [status |-> "unhealthy", service |-> "sheets-api",
                                     timestamp |-> now_isoformat]))
    /\ UNCHANGED <<environ, credFile, provider, created, client, seen>>

health_check(r) ==
    /\ pc[r] = "idle"
    /\ endpoint' = [endpoint EXCEPT ![r] = Health]
    /\ Return(r, health_check_response)
    /\ UNCHANGED <<environ, credFile, provider, created, client, calls, seen>>

----------------------------------------------------------------------------
(* The world *)

EnvironStates == {"absent", "valid", "malformed", "badinfo"}
CredFileStates == {"valid", "missing", "invalid"}
ProviderStates ==
    [spreadsheet : {"ok", "notfound", "error"},
     worksheet : {"ok", "notfound", "error"},
     read : {"ok", "error"}]
ProviderUp == [spreadsheet |-> "ok", worksheet |-> "ok", read |-> "ok"]

InitRequests ==
    /\ created = <<>>
    /\ endpoint = [r \in Req |-> ""]
    /\ pc = [r \in Req |-> "idle"]
    /\ client = [r \in Req |-> 0]
    /\ calls = [r \in Req |-> <<>>]
    /\ seen = [r \in Req |-> <<>>]
    /\ responses = [r \in Req |-> <<>>]
    /\ raised = [r \in Req |-> <<>>]
    /\ unhandled = [r \in Req |-> <<>>]

\* one request, in every state of the credentials and the provider
Init ==
    /\ environ \in EnvironStates
    /\ credFile \in CredFileStates
    /\ provider \in ProviderStates
    /\ InitRequests

Handle(r, sheets) ==
    \/ health_check(r)
    \/ get_master_data_client(r)
    \/ get_master_data_open(r)
    \/ get_master_data_worksheet(r)
    \/ get_master_data_records(r, sheets)
    \/ test_connection_client(r)
    \/ test_connection_open(r)
    \/ test_connection_worksheet(r)
    \/ test_connection_headers(r, sheets)

Next == Handle(1, HeaderSheets)

Spec == Init /\ [][Next]_vars

\* one master-data request against a working provider, over every worksheet content
InitData ==
    /\ environ = "absent"
    /\ credFile = "valid"
    /\ provider = ProviderUp
    /\ InitRequests

NextData ==
    \/ get_master_data_client(1)
    \/ get_master_data_open(1)
    \/ get_master_data_worksheet(1)
    \/ get_master_data_records(1, Sheets)

SpecData == InitData /\ [][NextData]_vars

\* the deployment's configuration and the provider change while requests run
set_environ ==
    /\ \E v \in {"absent", "valid"} : v # environ /\ environ' = v
    /\ UNCHANGED <<credFile, provider, created, endpoint, pc, client, calls, seen,
                   responses, raised, unhandled>>

set_cred_file ==
    /\ \E v \in {"valid", "missing"} : v # credFile /\ credFile' = v
    /\ UNCHANGED <<environ, provider, created, endpoint, pc, client, calls, seen,
                   responses, raised, unhandled>>

\* concurrent requests, served by independent workers in any interleaving
InitConc ==
    /\ environ = "absent"
    /\ credFile = "valid"
    /\ provider = ProviderUp
    /\ InitRequests

NextConc ==
    \/ \E r \in Req : Handle(r, ConcSheets)
    \/ set_environ
    \/ set_cred_file

SpecConc == InitConc /\ [][NextConc]_vars

----------------------------------------------------------------------------
(* Properties *)

Resp(r) == responses[r][1]
Ops(r) == {calls[r][i].op : i \in 1..Len(calls[r])}
Answered(r) == pc[r] = "done" /\ Len(responses[r]) = 1
Columns(header) == {header[i] : i \in 1..Len(header)}
MissingRequired(header) == Columns(required_columns) \ Columns(header)
Tokens(error) == {error[i] : i \in 1..Len(error)}

\* C1: whenever the worksheet read by GET /api/master-data lacks a required
\* header, the response is 400, names every missing required column and lists
\* the available columns, for any number of data rows, zero included.
C1_MissingHeaderGives400 ==
    \A r \in Req :
        (/\ endpoint[r] = MasterData
         /\ Answered(r)
         /\ seen[r] # <<>>
         /\ MissingRequired(seen[r][1].header) # {})
        => /\ Resp(r).status = 400
           /\ MissingRequired(seen[r][1].header) \subseteq Tokens(Resp(r).body.error)
           /\ Resp(r).body.available_columns = seen[r][1].header

\* C2: in GET /api/master-data a spreadsheet-not-found or worksheet-not-found
\* failure gives 404, a missing credential file gives 500 with the fixed
\* message, any other exception gives 500 with its message in 'error', and no
\* failure gives 200.
C2_FailureStatus ==
    \A r \in Req :
        (endpoint[r] = MasterData /\ raised[r] # <<>>)
        => /\ Answered(r)
           /\ Resp(r).status # 200
           /\ CASE raised[r][1].type = "SpreadsheetNotFound" -> Resp(r).status = 404
                [] raised[r][1].type = "WorksheetNotFound" -> Resp(r).status = 404
                [] raised[r][1].type = "FileNotFoundError" ->
                     /\ Resp(r).status = 500
                     /\ Resp(r).body.error =
                          <<"Service account file not found. Check the SERVICE_ACCOUNT_PATH.">>
                [] OTHER ->
                     /\ Resp(r).status = 500
                     /\ raised[r][1].msg \in Tokens(Resp(r).body.error)

C2_Witness ==
    \E r \in Req :
        /\ endpoint[r] = MasterData
        /\ Answered(r)
        /\ raised[r] # <<>>
        /\ raised[r][1].type = "WorksheetNotFound"
        /\ Resp(r).status = 404

NonBlankCell(cell) ==
    cell.kind = "int" \/ \E j \in 1..Len(cell.s) : cell.s[j] \notin Whitespace

NonBlankRows(sheet) ==
    {i \in 1..Len(sheet.rows) :
        \E c \in 1..Len(sheet.rows[i]) : NonBlankCell(sheet.rows[i][c])}

Kth(K, k) == CHOOSE i \in K : Cardinality({j \in K : j <= i}) = k

\* C3: on a 200 response of GET /api/master-data, 'data' holds exactly the
\* fetched records with a value that is non-blank after trimming (a number,
\* 0 included, or text with a non-whitespace character), in row order, and
\* 'count' is its length.
C3_DataIsNonBlankRows ==
    \A r \in Req :
        (endpoint[r] = MasterData /\ Answered(r) /\ Resp(r).status = 200)
        => /\ seen[r] # <<>>
           /\ Len(Resp(r).body.data) = Cardinality(NonBlankRows(seen[r][1]))
           /\ \A k \in 1..Len(Resp(r).body.data) :
                 Resp(r).body.data[k] =
                    [keys |-> seen[r][1].header,
                     vals |-> seen[r][1].rows[Kth(NonBlankRows(seen[r][1]), k)]]
           /\ Resp(r).body.count = Len(Resp(r).body.data)

C3_Witness ==
    \E r \in Req :
        /\ endpoint[r] = MasterData
        /\ Answered(r)
        /\ Resp(r).status = 200
        /\ Len(seen[r][1].rows) = 2
        /\ seen[r][1].rows[1] = <<StrCell(<<>>), StrCell(<<" ">>), StrCell(<<>>)>>
        /\ seen[r][1].rows[2] = <<StrCell(<<" ">>), IntCell(0), StrCell(<<>>)>>
        /\ Resp(r).body.count = 1
        /\ Resp(r).body.data[1].vals = seen[r][1].rows[2]

\* C4: when SERVICE_ACCOUNT_JSON is in the environment the credential is built
\* from it and the file at SERVICE_ACCOUNT_PATH is never read, whatever the
\* state of that file; the file is read only when the variable is absent.
C4_EnvironPreferred ==
    \A r \in Req :
        endpoint[r] \in {MasterData, TestConnection}
        => /\ environ # "absent"
              => /\ "from_service_account_file" \notin Ops(r)
                 /\ "json.loads" \in Ops(r)
                 /\ client[r] # 0 => "from_service_account_info" \in Ops(r)
           /\ environ = "absent"
              => /\ "from_service_account_file" \in Ops(r)
                 /\ "json.loads" \notin Ops(r)
                 /\ "from_service_account_info" \notin Ops(r)

C4_Witness ==
    \E r \in Req :
        /\ environ = "valid"
        /\ credFile = "valid"
        /\ client[r] # 0
        /\ "from_service_account_info" \in Ops(r)

\* C5: GET /api/health answers 200 with status 'healthy', service 'sheets-api'
\* and a timestamp in every state of the credentials and the provider, and
\* calls neither the credential loader nor the provider.
C5_HealthAlwaysHealthy ==
    \A r \in Req :
        endpoint[r] = Health
        => /\ Answered(r)
           /\ Resp(r).status = 200
           /\ DOMAIN Resp(r).body = {"status", "service", "timestamp"}
           /\ Resp(r).body.status = "healthy"
           /\ Resp(r).body.service = "sheets-api"
           /\ calls[r] = <<>>
           /\ client[r] = 0
           /\ raised[r] = <<>>

C5_Witness ==
    \E r \in Req :
        /\ endpoint[r] = Health
        /\ Answered(r)
        /\ environ = "absent"
        /\ credFile = "missing"
        /\ provider.spreadsheet = "notfound"
        /\ provider.read = "error"

\* C6: GET /api/test-connection never fetches the records: its only read of
\* the worksheet's cells is row 1, and its 200 body holds only the titles, the
\* header values and the declared row and column counts.
C6_TestConnectionReadsHeaderOnly ==
    \A r \in Req :
        endpoint[r] = TestConnection
        => /\ "get_all_records" \notin Ops(r)
           /\ \A i \in 1..Len(calls[r]) :
                 calls[r][i].op = "row_values" => calls[r][i].arg = 1
           /\ (Answered(r) /\ Resp(r).status = 200)
              => /\ seen[r] # <<>>
                 /\ "row_values" \in Ops(r)
                 /\ DOMAIN Resp(r).body =
                      {"success", "message", "spreadsheet_title", "worksheet_title",
                       "headers", "row_count", "col_count"}
                 /\ Resp(r).body.headers = seen[r][1].header
                 /\ Resp(r).body.row_count = seen[r][1].row_count
                 /\ Resp(r).body.col_count = seen[r][1].col_count
                 /\ Resp(r).body.worksheet_title = MASTER_TAB_NAME
           /\ (Answered(r) /\ Resp(r).status # 200) => DOMAIN Resp(r).body = {"error"}

C6_Witness ==
    \E r \in Req :
        /\ endpoint[r] = TestConnection
        /\ Answered(r)
        /\ Resp(r).status = 200
        /\ Len(seen[r][1].rows) = 2
        /\ Len(seen[r][1].header) = 4
        /\ Resp(r).body.row_count > Len(seen[r][1].rows) + 1
        /\ Resp(r).body.headers = AllColumns

\* C7: GET /api/test-connection answers every failure of any step with 500 and
\* an 'error' field, spreadsheet-not-found and worksheet-not-found included,
\* and its only statuses are 200 and 500.
C7_TestConnectionFailuresAre500 ==
    \A r \in Req :
        (endpoint[r] = TestConnection /\ pc[r] = "done")
        => /\ Answered(r)
           /\ Resp(r).status \in {200, 500}
           /\ raised[r] # <<>>
              => /\ Resp(r).status = 500
                 /\ "error" \in DOMAIN Resp(r).body
                 /\ raised[r][1].msg \in Tokens(Resp(r).body.error)
           /\ raised[r] = <<>> => Resp(r).status = 200

C7_Witness ==
    \E r \in Req :
        /\ endpoint[r] = TestConnection
        /\ Answered(r)
        /\ raised[r] # <<>>
        /\ raised[r][1].type = "SpreadsheetNotFound"
        /\ Resp(r).status = 500

Failed(call) == call.result \notin {"ok", "present", "absent"}

\* C8: a handler ends with exactly one response and lets no exception out; a
\* master-data response carries 'data' and 'count' exactly when its status is
\* 200, every other one carries 'error' and no record, and no call is made
\* twice or after a failed call within a request.
C8_OneResponseAllOrNothing ==
    \A r \in Req :
        /\ unhandled[r] = <<>>
        /\ Len(responses[r]) = (IF pc[r] = "done" THEN 1 ELSE 0)
        /\ Len(raised[r]) <= 1
        /\ pc[r] \notin {"idle", "done"} => ENABLED Handle(r, HeaderSheets)
        /\ \A i, j \in 1..Len(calls[r]) :
              i < j => (calls[r][i].op # calls[r][j].op /\ ~Failed(calls[r][i]))
        /\ (endpoint[r] = MasterData /\ Answered(r))
           => IF Resp(r).status = 200
              THEN /\ {"data", "count"} \subseteq DOMAIN Resp(r).body
                   /\ "error" \notin DOMAIN Resp(r).body
                   /\ raised[r] = <<>>
              ELSE /\ "error" \in DOMAIN Resp(r).body
                   /\ DOMAIN Resp(r).body \subseteq {"error", "available_columns"}
                   /\ "available_columns" \in DOMAIN Resp(r).body
                      => Resp(r).body.available_columns = seen[r][1].header

C8_Witness ==
    \E r \in Req :
        /\ endpoint[r] = MasterData
        /\ Answered(r)
        /\ raised[r] # <<>>
        /\ raised[r][1].type = "APIError"
        /\ "get_all_records" \in Ops(r)
        /\ Resp(r).status = 500

ProviderOps == {"open_by_key", "worksheet", "get_all_records", "row_values"}
CredentialOps == {"from_service_account_info", "from_service_account_file"}
CountOps(r, ops) == Cardinality({i \in 1..Len(calls[r]) : calls[r][i].op \in ops})

\* what r's own steps observed: the result of each call and the content read
Observed(r) ==
    <<[i \in 1..Len(calls[r]) |->
          [op |-> calls[r][i].op, arg |-> calls[r][i].arg, result |-> calls[r][i].result]],
      seen[r]>>

\* C9: under any interleaving, a request that reaches the provider has loaded
\* the credential once and built one client of its own, which no other request
\* uses, and two requests to one endpoint that observed the same results get
\* the same response.
C9_NoSharedState ==
    \A r \in Req :
        /\ Ops(r) \cap ProviderOps # {}
           => /\ CountOps(r, CredentialOps) = 1
              /\ CountOps(r, {"gspread.authorize"}) = 1
              /\ client[r] \in 1..Len(created)
              /\ created[client[r]] = r
              /\ \A i \in 1..Len(calls[r]) :
                    calls[r][i].op \in ProviderOps => calls[r][i].client = client[r]
        /\ \A q \in Req \ {r} :
              /\ client[r] # 0 => client[q] # client[r]
              /\ (pc[r] = "done" /\ pc[q] = "done" /\ endpoint[r] = endpoint[q]
                    /\ Observed(r) = Observed(q))
                 => responses[r] = responses[q]

C9_Witness ==
    \E r, q \in Req :
        /\ r # q
        /\ pc[r] = "worksheet"
        /\ pc[q] = "read"
        /\ client[r] # 0
        /\ client[q] # 0
        /\ "from_service_account_info" \in Ops(r)
        /\ "from_service_account_file" \in Ops(q)

Stage(op) ==
    CASE op = "open_by_key" -> 2
      [] op = "worksheet" -> 3
      [] op \in {"get_all_records", "row_values"} -> 4
      [] OTHER -> 1

\* C10: GET /api/master-data loads the credential, opens the spreadsheet, opens
\* the worksheet and fetches the records in that order, and the first failing
\* step alone decides the response: a missing credential file gives its 500
\* whatever the provider's state, a not-found spreadsheet gives its 404 before
\* the worksheet is looked up, and the required columns are checked on the
\* first fetched record before blank records are dropped, so all-blank rows
\* under a header lacking a required column give 400.
C10_StepOrder ==
    \A r \in Req :
        endpoint[r] = MasterData
        => /\ \A i, j \in 1..Len(calls[r]) :
                 i < j => /\ Stage(calls[r][i].op) <= Stage(calls[r][j].op)
                          /\ ~Failed(calls[r][i])
           /\ \A i \in 1..Len(calls[r]) :
                 Stage(calls[r][i].op) > 1
                 => \E j \in 1..(i - 1) : Stage(calls[r][j].op) = Stage(calls[r][i].op) - 1
           /\ (environ = "absent" /\ credFile = "missing")
              => /\ Answered(r)
                 /\ Resp(r).status = 500
                 /\ Resp(r).body.error =
                      <<"Service account file not found. Check the SERVICE_ACCOUNT_PATH.">>
                 /\ Ops(r) \cap ProviderOps = {}
           /\ (client[r] # 0 /\ provider.spreadsheet = "notfound" /\ pc[r] = "done")
              => /\ Answered(r)
                 /\ Resp(r).status = 404
                 /\ "worksheet" \notin Ops(r)
           /\ (seen[r] # <<>> /\ Len(seen[r][1].rows) > 0
                 /\ MissingRequired(seen[r][1].header) # {})
              => /\ Answered(r)
                 /\ Resp(r).status = 400

C10_Witness ==
    \E r \in Req :
        /\ endpoint[r] = MasterData
        /\ Answered(r)
        /\ seen[r] # <<>>
        /\ Len(seen[r][1].rows) = 2
        /\ \A i \in 1..2 : \A c \in 1..Len(seen[r][1].rows[i]) :
              seen[r][1].rows[i][c] = StrCell(<<" ">>)
        /\ MissingRequired(seen[r][1].header) = {"Email"}
        /\ Resp(r).status = 400

====
